---- MODULE Spec2Model ----
(***************************************************************************)
(* Platform scheduling of the railway optimisation project.                *)
(*                                                                         *)
(*   core/optimization/solver.py   RailwaySolver: the exact (CP-SAT)       *)
(*                                 scheduler                               *)
(*   dashboards/dashboard.py       DashboardWidget.run_optimization: the   *)
(*                                 greedy priority-ordered scheduler       *)
(*   core/optimization/triggers.py OptimizationTrigger: the loop that      *)
(*                                 triggers a run every interval_minutes   *)
(*                                                                         *)
(* Times are minutes (integers).  Train ids and platform ids are naturals  *)
(* (train 1 is 'T001', platform 1 is 'P1', ...); 0 stands for None.        *)
(*                                                                         *)
(* The specifications of the module:                                       *)
(*   SpecConflict  the two conflict tests applied to a pair of intervals   *)
(*   SpecExact     one call of RailwaySolver.solve_scheduling              *)
(*   SpecExactAnyInput  one call on a table of any shape                    *)
(*   SpecGreedy    one run of DashboardWidget.run_optimization             *)
(*   SpecGreedyRerun  several runs on one dashboard                        *)
(*   SpecReuse     one RailwaySolver or one dashboard used again and again *)
(*   SpecPlatforms either scheduler on platforms with any Platform record  *)
(*   SpecParallel  two calls of solve_scheduling at the same time          *)
(*   SpecTrigger   one OptimizationTrigger, its scheduler threads and the  *)
(*                 calls of start_scheduler and stop_scheduler             *)
(*   SpecTriggerFair  the same, every thread scheduled again and again     *)
(***************************************************************************)
EXTENDS Integers, Sequences, FiniteSets, TLC

\* ---------------------------------------------------------------- bounds
\* at most this many rows in a train table
MaxTrains == 3
\* at most this many platforms in a platform list
MaxPlatforms == 2
\* arrivals of the scheduled trains are at 0, 5, ..., 5 * MaxTick minutes
MaxTick == 3
\* the intervals handed to the bare conflict tests lie in 0..MaxMinute
MaxMinute == 8
\* at most this many clicks on "Run Optimization" on one dashboard
MaxRuns == 2
\* at most this many rows in the table of a dashboard that is run again
MaxRerunTrains == 2
\* tables of any shape handed to solve_scheduling: at most this many rows,
\* times at 0, 5, ..., 5 * MaxCallTick minutes, delays up to MaxDelay
MaxCallTrains == 2
MaxCallTick == 2
MaxDelay == 1
\* at most this many rows in the table of a call that runs beside another
MaxParallelTrains == 2
\* at most this many rows in a table scheduled on platforms that may be
\* closed or under maintenance
MaxCatalogTrains == 1

\* an OptimizationTrigger is built with interval_minutes in 1..MaxInterval
MaxInterval == 2
\* the clock of the trigger runs from minute 0 to minute MaxClock
MaxClock == 4
\* at most this many calls of start_scheduler on one OptimizationTrigger
MaxStarts == 2

\* ------------------------------------------------------ program constants
\* buffer = timedelta(minutes=5), in both schedulers
BufferMinutes == 5
\* time.sleep(60), in minutes
SleepMinutes == 1

VARIABLES
    \* SpecConflict: the pair of intervals and the answers of both tests
    iv_a, iv_b, cpc, overlap_ab, overlap_ba, count_ab, count_ba,
    \* SpecExact: the arguments of solve_scheduling, the position in it,
    \* self.model, platform_vars, the solver's response (its status, the
    \* values of the variables, whether the time limit cut the search off)
    \* and the result
    trains_df, platforms, pc, model, platform_vars, solver, result,
    \* SpecGreedy: the dashboard's train table (the rows, and the columns
    \* optimized_platform / optimization_reason that a run writes), the
    \* platform list of the run, the position in run_optimization, the
    \* clicks on "Run Optimization" still to come, the locals of the run,
    \* and what it leaves on the dashboard
    current_trains_df, optimized_columns, greedy_platforms, gpc, runs_left,
    sorted_trains, idx, assignments, assignment_reasons, platform_schedule,
    conflicts_resolved, priority_changes, optimization_history, status_label,
    \* the Platform records (models.py) of the platforms the caller knows
    platform_records,
    \* SpecParallel: two threads inside solve_scheduling; per thread the
    \* RailwaySolver it calls, its arguments, its position, its locals
    \* platform_vars and status, the model it handed to Solve and its result;
    \* per RailwaySolver its self.model and what its self.solver holds
    th_instance, th_trains, th_platforms, th_pc, th_platform_vars, th_status,
    th_solved, th_result, inst_model, inst_solver,
    \* SpecTrigger: one OptimizationTrigger (interval_minutes, is_running,
    \* last_run: <<>> for None, <<t>> for a time), the clock, the calls of
    \* start_scheduler still to come, per scheduler thread its position
    \* in _run_scheduler and the minute its sleep ends; and what was
    \* observed of the threads: the minute at which each last called
    \* _trigger_optimization (<<>> for never), how many of these calls each
    \* made while is_running was false, and the threads that wrote last_run
    interval_minutes, is_running, last_run, now, starts_left, loop_pc, wake_at,
    last_trigger, triggers_while_stopped, last_run_writers

conflict_vars == <<iv_a, iv_b, cpc, overlap_ab, overlap_ba, count_ab, count_ba>>
exact_vars == <<trains_df, platforms, pc, model, platform_vars, solver, result>>
greedy_input == <<current_trains_df, greedy_platforms>>
greedy_locals ==
    <<sorted_trains, idx, assignments, assignment_reasons, platform_schedule,
      conflicts_resolved, priority_changes>>
greedy_vars ==
    <<greedy_input, optimized_columns, gpc, runs_left, greedy_locals,
      optimization_history, status_label>>
parallel_vars ==
    <<th_instance, th_trains, th_platforms, th_pc, th_platform_vars, th_status,
      th_solved, th_result, inst_model, inst_solver>>
trigger_vars ==
    <<interval_minutes, is_running, last_run, now, starts_left, loop_pc, wake_at,
      last_trigger, triggers_while_stopped, last_run_writers>>
vars ==
    <<conflict_vars, exact_vars, greedy_vars, platform_records, parallel_vars,
      trigger_vars>>

\* ---------------------------------------------------------------- helpers
Range(s) == {s[k] : k \in DOMAIN s}

\* ------------------------------------------------------- conflict tests

\* the mutant: the buffer is dropped from the test
times_overlap_no_buffer(train1, train2) ==
    ~(train1.departure_time <= train2.arrival_time
        \/ train2.departure_time <= train1.arrival_time)

\* the mutant: only the first train's end is tested
times_overlap_one_sided(train1, train2) ==
    ~(train1.departure_time + BufferMinutes <= train2.arrival_time)

\* the mutant: the separations are tested with < instead of <=
times_overlap_strict(train1, train2) ==
    ~(train1.departure_time + BufferMinutes < train2.arrival_time
        \/ train2.departure_time + BufferMinutes < train1.arrival_time)

\* RailwaySolver._times_overlap: a row that lacks one of the two times
\* raises KeyError at lines 88-91 and the bare except answers False
times_overlap(train1, train2) ==
    IF {"arrival_time", "departure_time"} \subseteq (DOMAIN train1 \cap DOMAIN train2)
    THEN ~(train1.departure_time + BufferMinutes <= train2.arrival_time
            \/ train2.departure_time + BufferMinutes <= train1.arrival_time)
    ELSE FALSE

\* the mutant: the 5-minute buffer is left out of the count
count_conflicts_no_buffer(platform, arrival, departure, schedule) ==
    Cardinality({k \in DOMAIN schedule[platform] :
        ~(departure <= schedule[platform][k].arrival
            \/ schedule[platform][k].departure <= arrival)})

\* the mutant: only the new train's end is tested
count_conflicts_one_sided(platform, arrival, departure, schedule) ==
    Cardinality({k \in DOMAIN schedule[platform] :
        ~(departure + BufferMinutes <= schedule[platform][k].arrival)})

\* DashboardWidget.count_conflicts: the entries of the platform's occupancy
\* log that the interval conflicts with
count_conflicts(platform, arrival, departure, schedule) ==
    Cardinality({k \in DOMAIN schedule[platform] :
        ~(departure + BufferMinutes <= schedule[platform][k].arrival
            \/ schedule[platform][k].departure + BufferMinutes <= arrival)})

\* ------------------------------------------------------- the exact solver

\* the ids that key platform_vars: one key per distinct train_id
train_ids(df) == {df[k].train_id : k \in DOMAIN df}

\* the mutant: the inner loop starts at i + 2
add_time_constraints_skip(df, plats) ==
    {[a |-> df[i].train_id, b |-> df[j].train_id, p |-> plats[k]] :
        <<i, j, k>> \in {t \in (DOMAIN df) \X (DOMAIN df) \X (DOMAIN plats) :
            t[1] + 1 < t[2] /\ times_overlap(df[t[1]], df[t[2]])}}

\* RailwaySolver._add_time_constraints: x[a][p] + x[b][p] <= 1 for every
\* pair of rows i < j that overlap and every platform of the list
add_time_constraints(df, plats) ==
    {[a |-> df[i].train_id, b |-> df[j].train_id, p |-> plats[k]] :
        <<i, j, k>> \in {t \in (DOMAIN df) \X (DOMAIN df) \X (DOMAIN plats) :
            t[1] < t[2] /\ times_overlap(df[t[1]], df[t[2]])}}

\* the mutant: the sum leaves out the last platform of the list
exactly_one_constraints_short(df, plats) ==
    {[train |-> t, terms |-> SubSeq(plats, 1, Len(plats) - 1)] : t \in train_ids(df)}

\* solve_scheduling, lines 47-51: sum(x[t][p] for p in platforms) == 1 for
\* every key of platform_vars (with no platform the sum is 0 and the
\* constraint is the constant False)
exactly_one_constraints(df, plats) ==
    {[train |-> t, terms |-> plats] : t \in train_ids(df)}

\* the list delay_vars of lines 57-60: the delay of every row that has one
RECURSIVE delay_vars_from(_, _)
delay_vars_from(df, k) ==
    IF k > Len(df) THEN <<>>
    ELSE IF "delay_minutes" \in DOMAIN df[k]
         THEN <<df[k].delay_minutes>> \o delay_vars_from(df, k + 1)
         ELSE delay_vars_from(df, k + 1)

delay_vars(df) == delay_vars_from(df, 1)

RECURSIVE sum(_)
sum(values) == IF values = <<>> THEN 0 ELSE Head(values) + sum(Tail(values))

\* the mutant: the objective is the delay of the first row alone
objective_first_row(df) ==
    IF delay_vars(df) # <<>> THEN <<Head(delay_vars(df))>> ELSE <<>>

\* lines 62-63: Minimize(sum(delay_vars)) when the list is not empty; the
\* objective of the model is <<>> when none was set
objective(df) ==
    IF delay_vars(df) # <<>> THEN <<sum(delay_vars(df))>> ELSE <<>>

\* cp_model.CpModel(): a model with no constraint and no objective
CpModel == [exactly_one |-> {}, at_most_one |-> {}, objective |-> <<>>]

\* the mutant: line 35 is missing, the model of the instance is kept
stale_model == model

\* self.model = cp_model.CpModel(), line 35
fresh_model == CpModel

\* the response a CpSolver holds before its first Solve
no_response ==
    [status |-> "none", values |-> <<>>, cut_off |-> FALSE, objective_value |-> 0]

\* solver.ObjectiveValue() after a Solve that found a solution: the constant
\* objective of the model, 0 when the model has no objective
objective_value_of(m) == IF m.objective = <<>> THEN 0 ELSE m.objective[1]

\* the Boolean variables of the model that constraints can refer to
var_keys(pv) == {<<t, p>> \in (DOMAIN pv) \X (UNION {pv[t] : t \in DOMAIN pv}) : p \in pv[t]}

\* a valuation satisfies the constraints of a model
Satisfies(v, m) ==
    /\ \A c \in m.exactly_one :
        Cardinality({k \in DOMAIN c.terms : v[<<c.train, c.terms[k]>>]}) = 1
    /\ \A c \in m.at_most_one :
        (IF v[<<c.a, c.p>>] THEN 1 ELSE 0) + (IF v[<<c.b, c.p>>] THEN 1 ELSE 0) <= 1

Solutions(m, pv) == {v \in [var_keys(pv) -> BOOLEAN] : Satisfies(v, m)}

\* RailwaySolver._get_status_name
get_status_name(status) ==
    CASE status = "cp_model.OPTIMAL" -> "OPTIMAL"
      [] status = "cp_model.FEASIBLE" -> "FEASIBLE"
      [] status = "cp_model.INFEASIBLE" -> "INFEASIBLE"
      [] status = "cp_model.UNKNOWN" -> "UNKNOWN"
      [] status = "cp_model.MODEL_INVALID" -> "MODEL_INVALID"
      [] OTHER -> "UNKNOWN"

\* the first platform of the list whose variable is true, 0 when none is
first_true(t, plats, v) ==
    IF \E k \in DOMAIN plats : v[<<t, plats[k]>>]
    THEN plats[CHOOSE k \in DOMAIN plats :
            v[<<t, plats[k]>>] /\ \A h \in 1..(k - 1) : ~v[<<t, plats[h]>>]]
    ELSE 0

\* the mutant: the objective value is read whatever the status is
extract_solution_any_status(status, df, plats, pv, response) ==
    [status |-> get_status_name(status),
     platform_assignments |->
        IF status \in {"cp_model.OPTIMAL", "cp_model.FEASIBLE"}
        THEN [t \in {u \in DOMAIN pv : first_true(u, plats, response.values) # 0} |->
                first_true(t, plats, response.values)]
        ELSE <<>>,
     objective_value |-> <<response.objective_value>>]

\* RailwaySolver._extract_solution; response is what self.solver holds;
\* objective_value <<>> is None
extract_solution(status, df, plats, pv, response) ==
    [status |-> get_status_name(status),
     platform_assignments |->
        IF status \in {"cp_model.OPTIMAL", "cp_model.FEASIBLE"}
        THEN [t \in {u \in DOMAIN pv : first_true(u, plats, response.values) # 0} |->
                first_true(t, plats, response.values)]
        ELSE <<>>,
     objective_value |->
        IF status \in {"cp_model.OPTIMAL", "cp_model.FEASIBLE"}
        THEN <<response.objective_value>>
        ELSE <<>>]

\* the result no call has produced yet
no_result == [status |-> "none", platform_assignments |-> <<>>, objective_value |-> <<>>]

\* ---------------------------------------------------- the greedy scheduler

\* priority_order, line 330
priority_order(priority) ==
    CASE priority = "URGENT" -> 4
      [] priority = "HIGH" -> 3
      [] priority = "MEDIUM" -> 2
      [] priority = "LOW" -> 1

\* the mutant: the rows are sorted by ascending priority score
sorts_before_ascending(df, i, j) ==
    \/ priority_order(df[i].priority) < priority_order(df[j].priority)
    \/ /\ priority_order(df[i].priority) = priority_order(df[j].priority)
       /\ \/ df[i].arrival_time < df[j].arrival_time
          \/ df[i].arrival_time = df[j].arrival_time /\ i < j

\* row i comes before row j in sort_values(['priority_score',
\* 'arrival_time'], ascending=[False, True]); rows with equal keys keep
\* their order (the sort on several columns is stable)
sorts_before(df, i, j) ==
    \/ priority_order(df[i].priority) > priority_order(df[j].priority)
    \/ /\ priority_order(df[i].priority) = priority_order(df[j].priority)
       /\ \/ df[i].arrival_time < df[j].arrival_time
          \/ df[i].arrival_time = df[j].arrival_time /\ i < j

\* sorted_trains, lines 331-333
sort_values(df) ==
    [k \in DOMAIN df |->
        df[CHOOSE i \in DOMAIN df :
            Cardinality({j \in DOMAIN df : sorts_before(df, j, i)}) = k - 1]]

\* the mutant: the occupancy log of the previous run is kept
stale_schedule(plats) ==
    IF DOMAIN platform_schedule = Range(plats)
    THEN platform_schedule
    ELSE [p \in Range(plats) |-> <<>>]

\* platform_schedule = {p: [] for p in platforms}, line 325
fresh_schedule(plats) == [p \in Range(plats) |-> <<>>]

\* the scan of lines 358-363 from position k of the list on: acc holds
\* best_platform (0 is None) and min_conflicts (is_inf: still float('inf'))
RECURSIVE scan_from(_, _, _, _, _, _)
scan_from(plats, k, arrival, departure, schedule, acc) ==
    IF k > Len(plats) THEN acc
    ELSE LET conflicts == count_conflicts(plats[k], arrival, departure, schedule)
         IN scan_from(plats, k + 1, arrival, departure, schedule,
                IF acc.is_inf \/ conflicts < acc.min_conflicts
                THEN [best_platform |-> plats[k], min_conflicts |-> conflicts,
                      is_inf |-> FALSE]
                ELSE acc)

\* the mutant: the list is scanned from its last platform to its first
scan_platforms_reversed(plats, arrival, departure, schedule) ==
    scan_from([k \in DOMAIN plats |-> plats[Len(plats) + 1 - k]], 1,
        arrival, departure, schedule,
        [best_platform |-> 0, min_conflicts |-> 0, is_inf |-> TRUE])

\* the mutant: min_conflicts starts at 0 instead of float('inf')
scan_platforms_zero_minimum(plats, arrival, departure, schedule) ==
    scan_from(plats, 1, arrival, departure, schedule,
        [best_platform |-> 0, min_conflicts |-> 0, is_inf |-> FALSE])

\* the loop of lines 358-363
scan_platforms(plats, arrival, departure, schedule) ==
    scan_from(plats, 1, arrival, departure, schedule,
        [best_platform |-> 0, min_conflicts |-> 0, is_inf |-> TRUE])

\* a reason string, by the values formatted into it:
\*   original_platform, original_conflicts   "Original platform {} had {}
\*                                            conflicts, reassigning" (0, 0
\*                                            when the reason has no such part)
\*   kind "kept"           "Kept original assignment {platform} (no conflicts)"
\*   kind "conflict-free"  " -> Assigned to {platform} (conflict-free)"
\*   kind "minimized"      " -> Assigned to {platform} (minimized conflicts:
\*                           {min_conflicts})"
\*   kind "emergency"      "Emergency assignment to {platform} (all platforms
\*                           busy)"
\*   priority_note         " [Priority {} train]" ("" when absent)
Reason(original_platform, original_conflicts, kind, platform, min_conflicts, note) ==
    [original_platform |-> original_platform,
     original_conflicts |-> original_conflicts,
     kind |-> kind, platform |-> platform,
     min_conflicts |-> min_conflicts, priority_note |-> note]

\* the mutant: the original platform is not looked up in the list
check_original_unlisted(train, plats, schedule) ==
    IF train.original_platform # 0
    THEN [checked |-> TRUE,
          conflicts |-> IF train.original_platform \in DOMAIN schedule
                        THEN count_conflicts(train.original_platform,
                                train.arrival_time, train.departure_time, schedule)
                        ELSE 0]
    ELSE [checked |-> FALSE, conflicts |-> 0]

\* the mutant: the original platform is kept whatever is committed to it
check_original_keeps_always(train, plats, schedule) ==
    IF train.original_platform # 0 /\ train.original_platform \in Range(plats)
    THEN [checked |-> TRUE, conflicts |-> 0]
    ELSE [checked |-> FALSE, conflicts |-> 0]

\* lines 347-354: the test of the original platform
check_original(train, plats, schedule) ==
    IF train.original_platform # 0 /\ train.original_platform \in Range(plats)
    THEN [checked |-> TRUE,
          conflicts |-> count_conflicts(train.original_platform,
                            train.arrival_time, train.departure_time, schedule)]
    ELSE [checked |-> FALSE, conflicts |-> 0]

\* line 382: the position in the list of platforms[len(assignments) %
\* len(platforms)], for a list that is not empty
fallback_index(train, n_assigned, plats) == (n_assigned % Len(plats)) + 1

\* the mutant: a train with conflicts left adds one, whatever their number
resolved_once(min_conflicts) == IF min_conflicts > 0 THEN 1 ELSE 0

\* lines 365-366: what a scanned train adds to conflicts_resolved
resolved(min_conflicts) == IF min_conflicts > 0 THEN min_conflicts ELSE 0

\* the mutant: only URGENT trains are counted and noted
is_priority_urgent_only(priority) == priority = "URGENT"

\* line 371: priority in ['URGENT', 'HIGH']
is_priority(priority) == priority \in {"URGENT", "HIGH"}

\* one pass of the loop body, lines 336-385, for one row: the platform the
\* row is committed to, its reason, and what it adds to the counters;
\* raises: the pass ends in ZeroDivisionError (line 382, empty list).
\* The emergency branch is entered with best_platform None, that is when
\* the scan visited no platform; min_conflicts is then still float('inf')
\* and line 366 adds it to conflicts_resolved: with an empty list the pass
\* raises right after, so the sum is never read, and the model adds 0.
decide(train, plats, schedule, n_assigned) ==
    LET orig == check_original(train, plats, schedule)
        kept == orig.checked /\ orig.conflicts = 0
        scan == scan_platforms(plats, train.arrival_time, train.departure_time,
                               schedule)
        prefix_platform == IF orig.checked THEN train.original_platform ELSE 0
        prefix_conflicts == IF orig.checked THEN orig.conflicts ELSE 0
        urgent == is_priority(train.priority)
        note == IF urgent THEN train.priority ELSE ""
    IN  IF kept
        THEN [platform |-> train.original_platform,
              reason |-> Reason(0, 0, "kept", train.original_platform, 0, ""),
              conflicts_resolved |-> 0, priority_changes |-> 0,
              scanned |-> FALSE, raises |-> FALSE]
        ELSE IF scan.best_platform # 0
        THEN [platform |-> scan.best_platform,
              reason |-> Reason(prefix_platform, prefix_conflicts,
                            IF scan.min_conflicts > 0 THEN "minimized"
                            ELSE "conflict-free",
                            scan.best_platform, scan.min_conflicts, note),
              conflicts_resolved |-> resolved(scan.min_conflicts),
              priority_changes |-> IF urgent THEN 1 ELSE 0,
              scanned |-> TRUE, raises |-> FALSE]
        ELSE IF Len(plats) = 0
        THEN [platform |-> 0,
              reason |-> Reason(0, 0, "emergency", 0, 0, ""),
              conflicts_resolved |-> 0,
              priority_changes |-> IF urgent THEN 1 ELSE 0,
              scanned |-> TRUE, raises |-> TRUE]
        ELSE [platform |-> plats[fallback_index(train, n_assigned, plats)],
              reason |-> Reason(0, 0, "emergency",
                            plats[fallback_index(train, n_assigned, plats)], 0, ""),
              conflicts_resolved |-> 0,
              priority_changes |-> IF urgent THEN 1 ELSE 0,
              scanned |-> TRUE, raises |-> FALSE]

\* the mutant: the interval is committed to the first platform of the log
commit_to_first(schedule, platform, train) ==
    LET first == CHOOSE p \in DOMAIN schedule : \A q \in DOMAIN schedule : p <= q
    IN  [schedule EXCEPT ![first] =
            Append(@, [arrival |-> train.arrival_time,
                       departure |-> train.departure_time,
                       train_id |-> train.train_id])]

\* lines 379 and 385: platform_schedule[platform].append((arrival,
\* departure, train_id))
commit(schedule, platform, train) ==
    [schedule EXCEPT ![platform] =
        Append(@, [arrival |-> train.arrival_time,
                   departure |-> train.departure_time,
                   train_id |-> train.train_id])]

\* update_optimized_assignments, lines 467-472: the two columns of every
\* row whose train_id is a key of assignments
update_optimized_assignments(df, columns, assigned, reasons) ==
    [k \in DOMAIN df |->
        IF df[k].train_id \in DOMAIN assigned
        THEN [optimized_platform |-> assigned[df[k].train_id],
              optimization_reason |->
                IF df[k].train_id \in DOMAIN reasons
                THEN reasons[df[k].train_id]
                ELSE columns[k].optimization_reason]
        ELSE columns[k]]

\* ------------------------------------------------------------- inputs

\* the minute of tick k: scheduled trains arrive and leave on a grid whose
\* step is the buffer
TickMinute(k) == BufferMinutes * k

\* the time windows of scheduled trains: arrival strictly before departure
Windows ==
    {[arrival |-> TickMinute(a), departure |-> TickMinute(d)] :
        <<a, d>> \in {t \in (0..MaxTick) \X (0..MaxTick) : t[1] < t[2]}}

\* the rows of the table handed to solve_scheduling; train ids may repeat
ExactRows ==
    {[train_id |-> t, arrival_time |-> w.arrival, departure_time |-> w.departure,
      delay_minutes |-> 0] :
        t \in 1..MaxTrains, w \in Windows}

ExactTables == UNION {[1..n -> ExactRows] : n \in 0..MaxTrains}

\* platform lists: platform ids, each at most once, in any order
PlatformLists ==
    UNION {{s \in [1..n -> 1..MaxPlatforms] : \A h, k \in 1..n : h # k => s[h] # s[k]} :
        n \in 0..MaxPlatforms}

\* the intervals handed to the bare conflict tests
MinuteIntervals ==
    {[arrival |-> a, departure |-> d] :
        <<a, d>> \in {t \in (0..MaxMinute) \X (0..MaxMinute) : t[1] < t[2]}}

\* a row with the interval's times (the tests read nothing else)
AsRow(iv) == [train_id |-> 0, arrival_time |-> iv.arrival, departure_time |-> iv.departure]

\* an occupancy log holding the interval on platform 1
AsSchedule(iv) ==
    [p \in {1} |-> <<[arrival |-> iv.arrival, departure |-> iv.departure, train_id |-> 0]>>]

\* ------------------------------------------------- SpecConflict

ConflictIdle ==
    /\ iv_a = [arrival |-> 0, departure |-> 1]
    /\ iv_b = [arrival |-> 0, departure |-> 1]
    /\ cpc = "idle"
    /\ overlap_ab = FALSE /\ overlap_ba = FALSE
    /\ count_ab = 0 /\ count_ba = 0

ExactIdle ==
    /\ trains_df = <<>>
    /\ platforms = <<>>
    /\ pc = "idle"
    /\ model = CpModel
    /\ platform_vars = <<>>
    /\ solver = no_response
    /\ result = no_result

GreedyIdle ==
    /\ current_trains_df = <<>>
    /\ optimized_columns = <<>>
    /\ greedy_platforms = <<>>
    /\ gpc = "idle"
    /\ runs_left = 0
    /\ sorted_trains = <<>>
    /\ idx = 0
    /\ assignments = <<>>
    /\ assignment_reasons = <<>>
    /\ platform_schedule = <<>>
    /\ conflicts_resolved = 0
    /\ priority_changes = 0
    /\ optimization_history = <<>>
    /\ status_label = "System Ready"

\* Platform(platform_id): is_available = True, maintenance_window = None
\* (<<>>; a window is <<[arrival |-> a, departure |-> d]>>)
Platform(platform_id) == [is_available |-> TRUE, maintenance_window |-> <<>>]

DefaultPlatforms == [p \in 1..MaxPlatforms |-> Platform(p)]

Threads == {1, 2}

ParallelIdle ==
    /\ th_instance = [t \in Threads |-> t]
    /\ th_trains = [t \in Threads |-> <<>>]
    /\ th_platforms = [t \in Threads |-> <<>>]
    /\ th_pc = [t \in Threads |-> "idle"]
    /\ th_platform_vars = [t \in Threads |-> <<>>]
    /\ th_status = [t \in Threads |-> "none"]
    /\ th_solved = [t \in Threads |-> <<>>]
    /\ th_result = [t \in Threads |-> no_result]
    /\ inst_model = <<>>
    /\ inst_solver = <<>>

\* the scheduler threads one OptimizationTrigger may start
Loops == 1..MaxStarts

\* no OptimizationTrigger in use
TriggerIdle ==
    /\ interval_minutes = 0
    /\ is_running = FALSE
    /\ last_run = <<>>
    /\ now = 0
    /\ starts_left = 0
    /\ loop_pc = [t \in Loops |-> "unstarted"]
    /\ wake_at = [t \in Loops |-> 0]
    /\ last_trigger = [t \in Loops |-> <<>>]
    /\ triggers_while_stopped = [t \in Loops |-> 0]
    /\ last_run_writers = {}

InitConflict ==
    /\ iv_a \in MinuteIntervals
    /\ iv_b \in MinuteIntervals
    /\ cpc = "start"
    /\ overlap_ab = FALSE /\ overlap_ba = FALSE
    /\ count_ab = 0 /\ count_ba = 0
    /\ ExactIdle
    /\ GreedyIdle
    /\ platform_records = DefaultPlatforms
    /\ ParallelIdle
    /\ TriggerIdle

\* _times_overlap(A, B) and _times_overlap(B, A)
CallTimesOverlap ==
    /\ cpc = "start"
    /\ overlap_ab' = times_overlap(AsRow(iv_a), AsRow(iv_b))
    /\ overlap_ba' = times_overlap(AsRow(iv_b), AsRow(iv_a))
    /\ cpc' = "overlap"
    /\ UNCHANGED <<iv_a, iv_b, count_ab, count_ba, exact_vars, greedy_vars,
                   platform_records, parallel_vars, trigger_vars>>

\* count_conflicts of A against a log holding B, and of B against one holding A
CallCountConflicts ==
    /\ cpc = "overlap"
    /\ count_ab' = count_conflicts(1, iv_a.arrival, iv_a.departure, AsSchedule(iv_b))
    /\ count_ba' = count_conflicts(1, iv_b.arrival, iv_b.departure, AsSchedule(iv_a))
    /\ cpc' = "done"
    /\ UNCHANGED <<iv_a, iv_b, overlap_ab, overlap_ba, exact_vars, greedy_vars,
                   platform_records, parallel_vars, trigger_vars>>

NextConflict == CallTimesOverlap \/ CallCountConflicts

SpecConflict == InitConflict /\ [][NextConflict]_vars

\* ------------------------------------------------- SpecExact

InitExact ==
    /\ trains_df \in ExactTables
    /\ platforms \in PlatformLists
    /\ pc = "start"
    /\ model = CpModel
    /\ platform_vars = <<>>
    /\ solver = no_response
    /\ result = no_result
    /\ ConflictIdle
    /\ GreedyIdle
    /\ platform_records = DefaultPlatforms
    /\ ParallelIdle
    /\ TriggerIdle

\* solve_scheduling, lines 32-63: a fresh model, one Boolean per key of
\* platform_vars and platform, and the constraints
BuildModel ==
    /\ pc = "start"
    /\ \A k \in DOMAIN trains_df : "train_id" \in DOMAIN trains_df[k]
    /\ platform_vars' = [t \in train_ids(trains_df) |-> Range(platforms)]
    /\ model' =
        [exactly_one |-> fresh_model.exactly_one
                            \cup exactly_one_constraints(trains_df, platforms),
         at_most_one |-> fresh_model.at_most_one
                            \cup add_time_constraints(trains_df, platforms),
         objective |-> objective(trains_df)]
    /\ pc' = "built"
    /\ UNCHANGED <<trains_df, platforms, solver, result, conflict_vars, greedy_vars,
                   platform_records, parallel_vars, trigger_vars>>

\* self.solver.Solve(self.model) when the search finishes within the time
\* limit: OPTIMAL with a valuation that satisfies the model (the objective
\* is a constant), INFEASIBLE when there is none
SolveComplete ==
    /\ pc = "built"
    /\ IF Solutions(model, platform_vars) # {}
       THEN \E v \in Solutions(model, platform_vars) :
                solver' = [status |-> "cp_model.OPTIMAL", values |-> v,
                           cut_off |-> FALSE,
                           objective_value |-> objective_value_of(model)]
       ELSE solver' = [status |-> "cp_model.INFEASIBLE", values |-> <<>>,
                       cut_off |-> FALSE, objective_value |-> 0]
    /\ pc' = "solved"
    /\ UNCHANGED <<trains_df, platforms, model, platform_vars, result, conflict_vars, greedy_vars,
                   platform_records, parallel_vars, trigger_vars>>

\* Solve cut off by max_time_in_seconds after a solution was found
SolveTimeLimitFeasible ==
    /\ pc = "built"
    /\ \E v \in Solutions(model, platform_vars) :
            solver' = [status |-> "cp_model.FEASIBLE", values |-> v, cut_off |-> TRUE,
                       objective_value |-> objective_value_of(model)]
    /\ pc' = "solved"
    /\ UNCHANGED <<trains_df, platforms, model, platform_vars, result, conflict_vars, greedy_vars,
                   platform_records, parallel_vars, trigger_vars>>

\* Solve cut off by max_time_in_seconds before anything was decided
SolveTimeLimitUnknown ==
    /\ pc = "built"
    /\ solver' = [status |-> "cp_model.UNKNOWN", values |-> <<>>, cut_off |-> TRUE,
                   objective_value |-> 0]
    /\ pc' = "solved"
    /\ UNCHANGED <<trains_df, platforms, model, platform_vars, result, conflict_vars, greedy_vars,
                   platform_records, parallel_vars, trigger_vars>>

\* solve_scheduling, line 68
ExtractSolution ==
    /\ pc = "solved"
    /\ result' = extract_solution(solver.status, trains_df, platforms,
                                  platform_vars, solver)
    /\ pc' = "done"
    /\ UNCHANGED <<trains_df, platforms, model, platform_vars, solver, conflict_vars, greedy_vars,
                   platform_records, parallel_vars, trigger_vars>>

NextExact ==
    \/ BuildModel
    \/ SolveComplete
    \/ SolveTimeLimitFeasible
    \/ SolveTimeLimitUnknown
    \/ ExtractSolution

SpecExact == InitExact /\ [][NextExact]_vars

\* ------------------------------------------------- SpecGreedy

Priorities == {"URGENT", "HIGH", "MEDIUM", "LOW"}

\* the time windows of the dashboard's trains: one tick long
GreedyWindows ==
    {[arrival |-> TickMinute(a), departure |-> TickMinute(a + 1)] :
        a \in 0..(MaxTick - 1)}

\* what a row of the dashboard's table holds besides its train_id
GreedyRowChoices == GreedyWindows \X Priorities \X (0..MaxPlatforms)

\* the dashboard's table: row k is train k (generate_mock_data numbers the
\* trains), with a priority and an original platform that may be None (0)
\* or a platform that is not in the list of the run
GreedyTable(n, c) ==
    [k \in 1..n |->
        [train_id |-> k,
         arrival_time |-> c[k][1].arrival,
         departure_time |-> c[k][1].departure,
         priority |-> c[k][2],
         original_platform |-> c[k][3]]]

\* platforms = ['P1', 'P2', ...], line 322, cut to its first n entries
DeclaredPlatforms(n) == [k \in 1..n |-> k]

NoColumns(df) ==
    [k \in DOMAIN df |->
        [optimized_platform |-> 0, optimization_reason |-> Reason(0, 0, "", 0, 0, "")]]

\* a dashboard after refresh_data: a table of at most max_rows trains, no
\* run yet, and the clicks on "Run Optimization" to come
InitDashboard(max_rows, clicks) ==
    /\ \E n \in 0..max_rows : \E c \in [1..n -> GreedyRowChoices] :
            current_trains_df = GreedyTable(n, c)
    /\ optimized_columns = NoColumns(current_trains_df)
    /\ greedy_platforms \in {DeclaredPlatforms(n) : n \in 0..MaxPlatforms}
    /\ gpc = "ready"
    /\ runs_left = clicks
    /\ sorted_trains = <<>>
    /\ idx = 0
    /\ assignments = <<>>
    /\ assignment_reasons = <<>>
    /\ platform_schedule = <<>>
    /\ conflicts_resolved = 0
    /\ priority_changes = 0
    /\ optimization_history = <<>>
    /\ status_label = "System Ready"
    /\ ConflictIdle
    /\ ExactIdle
    /\ ParallelIdle
    /\ TriggerIdle

\* one run on a table of at most MaxTrains trains
InitGreedy == InitDashboard(MaxTrains, 1) /\ platform_records = DefaultPlatforms

\* MaxRuns runs, one after the other, on a table of at most MaxRerunTrains
InitGreedyRerun ==
    InitDashboard(MaxRerunTrains, MaxRuns) /\ platform_records = DefaultPlatforms

Returned == gpc \in {"ready", "warned", "finished", "error"}

\* run_optimization, lines 308-310: no train data, a warning and nothing else
RunWithoutData ==
    /\ Returned
    /\ runs_left > 0
    /\ Len(current_trains_df) = 0
    /\ gpc' = "warned"
    /\ runs_left' = runs_left - 1
    /\ UNCHANGED <<greedy_input, optimized_columns, greedy_locals,
                   optimization_history, status_label, conflict_vars, exact_vars,
                   platform_records, parallel_vars, trigger_vars>>

\* run_optimization, lines 312-333: the locals of the run and the sorted copy
StartRun ==
    /\ Returned
    /\ runs_left > 0
    /\ Len(current_trains_df) > 0
    /\ status_label' = "Optimizing..."
    /\ assignments' = <<>>
    /\ assignment_reasons' = <<>>
    /\ platform_schedule' = fresh_schedule(greedy_platforms)
    /\ conflicts_resolved' = 0
    /\ priority_changes' = 0
    /\ sorted_trains' = sort_values(current_trains_df)
    /\ idx' = 1
    /\ gpc' = "loop"
    /\ runs_left' = runs_left - 1
    /\ UNCHANGED <<greedy_input, optimized_columns, optimization_history,
                   conflict_vars, exact_vars,
                   platform_records, parallel_vars, trigger_vars>>

Decision ==
    decide(sorted_trains[idx], greedy_platforms, platform_schedule,
           Cardinality(DOMAIN assignments))

\* one pass of the loop body, lines 335-385: the row is assigned and its
\* interval is appended to the platform's occupancy log
GreedyStep ==
    /\ gpc = "loop"
    /\ idx <= Len(sorted_trains)
    /\ ~Decision.raises
    /\ LET train == sorted_trains[idx]
           d == Decision
       IN  /\ assignments' =
                [t \in DOMAIN assignments \cup {train.train_id} |->
                    IF t = train.train_id THEN d.platform ELSE assignments[t]]
           /\ assignment_reasons' =
                [t \in DOMAIN assignment_reasons \cup {train.train_id} |->
                    IF t = train.train_id THEN d.reason ELSE assignment_reasons[t]]
           /\ platform_schedule' = commit(platform_schedule, d.platform, train)
           /\ conflicts_resolved' = conflicts_resolved + d.conflicts_resolved
           /\ priority_changes' = priority_changes + d.priority_changes
    /\ idx' = idx + 1
    /\ UNCHANGED <<greedy_input, optimized_columns, gpc, runs_left, sorted_trains,
                   optimization_history, status_label, conflict_vars, exact_vars,
                   platform_records, parallel_vars, trigger_vars>>

\* a pass of the loop body that raises (ZeroDivisionError, line 382): the
\* handler of lines 447-451 ends the run, its locals are gone
GreedyStepRaises ==
    /\ gpc = "loop"
    /\ idx <= Len(sorted_trains)
    /\ Decision.raises
    /\ gpc' = "error"
    /\ status_label' = "Error"
    /\ assignments' = <<>>
    /\ assignment_reasons' = <<>>
    /\ platform_schedule' = <<>>
    /\ conflicts_resolved' = 0
    /\ priority_changes' = 0
    /\ sorted_trains' = <<>>
    /\ idx' = 0
    /\ UNCHANGED <<greedy_input, optimized_columns, runs_left, optimization_history,
                   conflict_vars, exact_vars,
                   platform_records, parallel_vars, trigger_vars>>

\* run_optimization, lines 387-445: the columns of the table are written
\* and the result is appended to optimization_history
FinishRun ==
    /\ gpc = "loop"
    /\ idx > Len(sorted_trains)
    /\ optimized_columns' =
            update_optimized_assignments(current_trains_df, optimized_columns,
                                         assignments, assignment_reasons)
    /\ optimization_history' =
            Append(optimization_history,
                [total_trains |-> Len(current_trains_df),
                 assignments |-> assignments,
                 assignment_reasons |-> assignment_reasons,
                 conflicts_resolved |-> conflicts_resolved,
                 priority_changes |-> priority_changes])
    /\ status_label' = "Optimized"
    /\ gpc' = "finished"
    /\ UNCHANGED <<greedy_input, runs_left, greedy_locals, conflict_vars, exact_vars,
                   platform_records, parallel_vars, trigger_vars>>

NextGreedy ==
    \/ RunWithoutData
    \/ StartRun
    \/ GreedyStep
    \/ GreedyStepRaises
    \/ FinishRun

SpecGreedy == InitGreedy /\ [][NextGreedy]_vars

SpecGreedyRerun == InitGreedyRerun /\ [][NextGreedy]_vars

\* ------------------------------------------------- SpecExactAnyInput

AllColumns == {"train_id", "arrival_time", "departure_time", "delay_minutes"}

\* the columns of the table handed in: all four, or one of them missing
ColumnSets == {AllColumns} \cup {AllColumns \ {c} : c \in {"train_id", "arrival_time", "delay_minutes"}}

\* what the cells of a row may hold: any id, any two times (the arrival
\* need not come before the departure), any delay
AnyCells ==
    (1..MaxCallTrains) \X (0..MaxCallTick) \X (0..MaxCallTick) \X (0..MaxDelay)

\* a row of a table with the columns cols
AnyRow(cols, cells) ==
    [c \in cols |->
        CASE c = "train_id" -> cells[1]
          [] c = "arrival_time" -> TickMinute(cells[2])
          [] c = "departure_time" -> TickMinute(cells[3])
          [] c = "delay_minutes" -> cells[4]]

\* one call of solve_scheduling on a table of any shape and any platform list
InitExactAnyInput ==
    /\ \E cols \in ColumnSets : \E n \in 0..MaxCallTrains :
        \E cells \in [1..n -> AnyCells] :
            trains_df = [k \in 1..n |-> AnyRow(cols, cells[k])]
    /\ platforms \in PlatformLists
    /\ pc = "start"
    /\ model = CpModel
    /\ platform_vars = <<>>
    /\ solver = no_response
    /\ result = no_result
    /\ ConflictIdle
    /\ GreedyIdle
    /\ platform_records = DefaultPlatforms
    /\ ParallelIdle
    /\ TriggerIdle

\* solve_scheduling, lines 35-40: train['train_id'] raises KeyError on the
\* first row of a table without that column; nothing catches it, the call
\* ends with the exception and returns no result
BuildModelRaises ==
    /\ pc = "start"
    /\ \E k \in DOMAIN trains_df : "train_id" \notin DOMAIN trains_df[k]
    /\ model' = fresh_model
    /\ pc' = "raised"
    /\ UNCHANGED <<trains_df, platforms, platform_vars, solver, result,
                   conflict_vars, greedy_vars,
                   platform_records, parallel_vars, trigger_vars>>

NextExactAnyInput == NextExact \/ BuildModelRaises

SpecExactAnyInput == InitExactAnyInput /\ [][NextExactAnyInput]_vars

\* ------------------------------------------------- SpecReuse

\* the tables handed to a solver that is called again and again: row k is
\* train k, its window is one tick long
ReuseTable(n, w) ==
    [k \in 1..n |->
        [train_id |-> k, arrival_time |-> w[k].arrival,
         departure_time |-> w[k].departure, delay_minutes |-> 0]]

\* the arguments of one call
CallArguments ==
    /\ \E n \in 0..MaxRerunTrains : \E w \in [1..n -> GreedyWindows] :
            trains_df' = ReuseTable(n, w)
    /\ platforms' \in {DeclaredPlatforms(n) : n \in 0..MaxPlatforms}

\* a RailwaySolver and the arguments of the first call on it
InitExactReuse ==
    /\ \E n \in 0..MaxRerunTrains : \E w \in [1..n -> GreedyWindows] :
            trains_df = ReuseTable(n, w)
    /\ platforms \in {DeclaredPlatforms(n) : n \in 0..MaxPlatforms}
    /\ pc = "start"
    /\ model = CpModel
    /\ platform_vars = <<>>
    /\ solver = no_response
    /\ result = no_result
    /\ ConflictIdle
    /\ GreedyIdle
    /\ platform_records = DefaultPlatforms
    /\ ParallelIdle
    /\ TriggerIdle

\* solve_scheduling is called again on the same RailwaySolver: self.model
\* and self.solver are what the previous call left, the locals are new
NewCall ==
    /\ pc = "done"
    /\ CallArguments
    /\ pc' = "start"
    /\ platform_vars' = <<>>
    /\ result' = no_result
    /\ UNCHANGED <<model, solver, conflict_vars, greedy_vars,
                   platform_records, parallel_vars, trigger_vars>>

\* one object used again and again: a RailwaySolver, or a dashboard
InitReuse == InitExactReuse \/ InitGreedyRerun

NextReuse == NextExact \/ NewCall \/ NextGreedy

SpecReuse == InitReuse /\ [][NextReuse]_vars

\* ------------------------------------------------- SpecPlatforms

\* the first and the last of the unit windows: two windows that do not
\* conflict
ParallelWindows ==
    {w \in GreedyWindows : w.arrival \in {TickMinute(0), TickMinute(MaxTick - 1)}}


\* the Platform records the caller may hold: a platform is available or
\* not, and has no maintenance window or one
PlatformChoices ==
    {[is_available |-> b, maintenance_window |-> mw] :
        b \in BOOLEAN, mw \in {<<>>} \cup {<<w>> : w \in ParallelWindows}}

\* a solve_scheduling call on the ids of platforms with any records
InitExactPlatforms ==
    /\ \E n \in 0..MaxCatalogTrains : \E w \in [1..n -> GreedyWindows] :
            trains_df = ReuseTable(n, w)
    /\ platforms \in {DeclaredPlatforms(n) : n \in 0..MaxPlatforms}
    /\ pc = "start"
    /\ model = CpModel
    /\ platform_vars = <<>>
    /\ solver = no_response
    /\ result = no_result
    /\ ConflictIdle
    /\ GreedyIdle
    /\ ParallelIdle
    /\ TriggerIdle

\* a scheduler, exact or greedy, run on platforms with any records
InitPlatforms ==
    /\ platform_records \in [1..MaxPlatforms -> PlatformChoices]
    /\ InitExactPlatforms \/ InitDashboard(MaxCatalogTrains, 1)

NextPlatforms == NextExact \/ NextGreedy

SpecPlatforms == InitPlatforms /\ [][NextPlatforms]_vars

\* ------------------------------------------------- SpecParallel
\*
\* Two threads run solve_scheduling at the same time, on one RailwaySolver
\* or on one each.  A Boolean variable is its index in the model that
\* NewBoolVar was called on; a constraint holds the indices of its
\* variables, whatever model Add is called on.  var_owner and by record
\* the thread that created a variable or a constraint.

\* cp_model.CpModel(), with its variables
IndexedCpModel ==
    [var_owner |-> <<>>, exactly_one |-> {}, at_most_one |-> {}, objective |-> <<>>]

\* the indices a model's constraints refer to
referenced(m) ==
    UNION {Range(c.terms) : c \in m.exactly_one}
        \cup UNION {{c.a, c.b} : c \in m.at_most_one}

\* the valuations of a model's variables that satisfy its constraints
IndexedSolutions(m) ==
    {v \in [DOMAIN m.var_owner -> BOOLEAN] :
        /\ \A c \in m.exactly_one :
            Cardinality({k \in DOMAIN c.terms : v[c.terms[k]]}) = 1
        /\ \A c \in m.at_most_one :
            (IF v[c.a] THEN 1 ELSE 0) + (IF v[c.b] THEN 1 ELSE 0) <= 1}

\* the loop of lines 112-115 for one key from position k on: the first
\* platform whose variable is true in the solver's response, 0 when there
\* is none, -1 when solver.Value is asked for an index the response does
\* not hold (it raises)
RECURSIVE value_scan(_, _, _, _, _)
value_scan(pv, train_id, plats, values, k) ==
    IF k > Len(plats) THEN 0
    ELSE IF pv[<<train_id, plats[k]>>] \notin DOMAIN values THEN -1
    ELSE IF values[pv[<<train_id, plats[k]>>]] THEN plats[k]
    ELSE value_scan(pv, train_id, plats, values, k + 1)

keys(pv) == {kp[1] : kp \in DOMAIN pv}

\* the arguments of the two calls differ
InitParallel ==
    /\ th_instance \in {[t \in Threads |-> 1], [t \in Threads |-> t]}
    /\ \E n \in [Threads -> 1..MaxParallelTrains] :
        \E w \in [Threads -> [1..MaxParallelTrains -> ParallelWindows]] :
            th_trains = [t \in Threads |-> ReuseTable(n[t], w[t])]
    /\ th_platforms \in [Threads -> {DeclaredPlatforms(n) : n \in 1..MaxPlatforms}]
    /\ <<th_trains[1], th_platforms[1]>> # <<th_trains[2], th_platforms[2]>>
    /\ TriggerIdle
    /\ th_pc = [t \in Threads |-> "start"]
    /\ th_platform_vars = [t \in Threads |-> <<>>]
    /\ th_status = [t \in Threads |-> "none"]
    /\ th_solved = [t \in Threads |-> IndexedCpModel]
    /\ th_result = [t \in Threads |-> no_result]
    /\ inst_model = [i \in Range(th_instance) |-> IndexedCpModel]
    /\ inst_solver = [i \in Range(th_instance) |-> no_response]
    /\ platform_records = DefaultPlatforms
    /\ ConflictIdle
    /\ ExactIdle
    /\ GreedyIdle

\* line 35
CreateModel(t) ==
    /\ th_pc[t] = "start"
    /\ inst_model' = [inst_model EXCEPT ![th_instance[t]] = IndexedCpModel]
    /\ th_pc' = [th_pc EXCEPT ![t] = "created"]
    /\ UNCHANGED <<th_instance, th_trains, th_platforms, th_platform_vars, th_status,
                   th_solved, th_result, inst_solver,
                   conflict_vars, exact_vars, greedy_vars, platform_records,
                   trigger_vars>>

\* lines 37-45: NewBoolVar on self.model for every row and platform
CreateVariables(t) ==
    /\ th_pc[t] = "created"
    /\ LET m == inst_model[th_instance[t]]
           base == Len(m.var_owner)
           df == th_trains[t]
           plats == th_platforms[t]
       IN  /\ th_platform_vars' = [th_platform_vars EXCEPT ![t] =
                [kp \in {<<df[i].train_id, plats[j]>> : i \in DOMAIN df, j \in DOMAIN plats} |->
                    LET i == CHOOSE i \in DOMAIN df :
                                /\ df[i].train_id = kp[1]
                                /\ \A h \in DOMAIN df : df[h].train_id = kp[1] => h <= i
                        j == CHOOSE j \in DOMAIN plats : plats[j] = kp[2]
                    IN  base + (i - 1) * Len(plats) + j]]
           /\ inst_model' = [inst_model EXCEPT ![th_instance[t]].var_owner =
                m.var_owner \o [k \in 1..(Len(df) * Len(plats)) |-> t]]
    /\ th_pc' = [th_pc EXCEPT ![t] = "vars"]
    /\ UNCHANGED <<th_instance, th_trains, th_platforms, th_status,
                   th_solved, th_result, inst_solver,
                   conflict_vars, exact_vars, greedy_vars, platform_records,
                   trigger_vars>>

\* lines 47-51: the exactly-one constraints, added to self.model
AddExactlyOne(t) ==
    /\ th_pc[t] = "vars"
    /\ LET pv == th_platform_vars[t]
           plats == th_platforms[t]
       IN  inst_model' = [inst_model EXCEPT ![th_instance[t]].exactly_one =
                @ \cup {[terms |-> [j \in DOMAIN plats |-> pv[<<id, plats[j]>>]],
                         by |-> t] : id \in keys(pv)}]
    /\ th_pc' = [th_pc EXCEPT ![t] = "exactly_one"]
    /\ UNCHANGED <<th_instance, th_trains, th_platforms, th_platform_vars, th_status,
                   th_solved, th_result, inst_solver,
                   conflict_vars, exact_vars, greedy_vars, platform_records,
                   trigger_vars>>

\* lines 54-63: _add_time_constraints and the objective, on self.model
AddTimeConstraints(t) ==
    /\ th_pc[t] = "exactly_one"
    /\ LET pv == th_platform_vars[t]
       IN  inst_model' = [inst_model EXCEPT
                ![th_instance[t]].at_most_one =
                    @ \cup {[a |-> pv[<<c.a, c.p>>], b |-> pv[<<c.b, c.p>>], by |-> t] :
                            c \in add_time_constraints(th_trains[t], th_platforms[t])},
                ![th_instance[t]].objective = objective(th_trains[t])]
    /\ th_pc' = [th_pc EXCEPT ![t] = "built"]
    /\ UNCHANGED <<th_instance, th_trains, th_platforms, th_platform_vars, th_status,
                   th_solved, th_result, inst_solver,
                   conflict_vars, exact_vars, greedy_vars, platform_records,
                   trigger_vars>>

\* line 66: self.solver.Solve(self.model).  A model with a constraint on an
\* index it has no variable for is MODEL_INVALID; otherwise as in
\* SolveComplete, SolveTimeLimitFeasible and SolveTimeLimitUnknown
Solve(t) ==
    /\ th_pc[t] = "built"
    /\ LET m == inst_model[th_instance[t]]
       IN  /\ th_solved' = [th_solved EXCEPT ![t] = m]
           /\ \E response \in
                IF ~(referenced(m) \subseteq DOMAIN m.var_owner)
                THEN {[status |-> "cp_model.MODEL_INVALID", values |-> <<>>,
                       cut_off |-> FALSE, objective_value |-> 0]}
                ELSE {[status |-> "cp_model.UNKNOWN", values |-> <<>>,
                       cut_off |-> TRUE, objective_value |-> 0]}
                     \cup (IF IndexedSolutions(m) = {}
                           THEN {[status |-> "cp_model.INFEASIBLE", values |-> <<>>,
                                  cut_off |-> FALSE, objective_value |-> 0]}
                           ELSE {[status |-> st, values |-> v, cut_off |-> st = "cp_model.FEASIBLE",
                                  objective_value |-> objective_value_of(m)] :
                                    st \in {"cp_model.OPTIMAL", "cp_model.FEASIBLE"},
                                    v \in IndexedSolutions(m)}) :
                /\ inst_solver' = [inst_solver EXCEPT ![th_instance[t]] = response]
                /\ th_status' = [th_status EXCEPT ![t] = response.status]
    /\ th_pc' = [th_pc EXCEPT ![t] = "solved"]
    /\ UNCHANGED <<th_instance, th_trains, th_platforms, th_platform_vars,
                   th_result, inst_model,
                   conflict_vars, exact_vars, greedy_vars, platform_records,
                   trigger_vars>>

\* line 68, _extract_solution: the values and the objective value are read
\* from self.solver; the call ends with an exception when solver.Value
\* raises
Extract(t) ==
    /\ th_pc[t] = "solved"
    /\ LET pv == th_platform_vars[t]
           plats == th_platforms[t]
           response == inst_solver[th_instance[t]]
           found == [id \in keys(pv) |-> value_scan(pv, id, plats, response.values, 1)]
           has_solution == th_status[t] \in {"cp_model.OPTIMAL", "cp_model.FEASIBLE"}
       IN  IF has_solution /\ \E id \in keys(pv) : found[id] = -1
           THEN /\ th_pc' = [th_pc EXCEPT ![t] = "raised"]
                /\ UNCHANGED th_result
           ELSE /\ th_pc' = [th_pc EXCEPT ![t] = "done"]
                /\ th_result' = [th_result EXCEPT ![t] =
                    [status |-> get_status_name(th_status[t]),
                     platform_assignments |->
                        IF has_solution
                        THEN [id \in {u \in keys(pv) : found[u] # 0} |-> found[id]]
                        ELSE <<>>,
                     objective_value |->
                        IF has_solution THEN <<response.objective_value>> ELSE <<>>]]
    /\ UNCHANGED <<th_instance, th_trains, th_platforms, th_platform_vars, th_status,
                   th_solved, inst_model, inst_solver,
                   conflict_vars, exact_vars, greedy_vars, platform_records,
                   trigger_vars>>

NextParallel ==
    \E t \in Threads :
        \/ CreateModel(t)
        \/ CreateVariables(t)
        \/ AddExactlyOne(t)
        \/ AddTimeConstraints(t)
        \/ Solve(t)
        \/ Extract(t)

SpecParallel == InitParallel /\ [][NextParallel]_vars

\* ------------------------------------------------- OptimizationTrigger
\* The clock counts minutes and stops at MaxClock; a sleep that would end
\* after MaxClock ends at MaxClock.  datetime.now() is the clock.

\* the mutant: the loop never reads the flag
loop_condition_always(flag) == TRUE

\* line 35: while self.is_running
loop_condition(flag) == flag

\* the mutant: a run is due one minute early
should_run_optimization_early(last, clock, interval) ==
    IF last = <<>> THEN TRUE
    ELSE clock - last[1] >= interval - 1

\* _should_run_optimization, lines 45-51
should_run_optimization(last, clock, interval) ==
    IF last = <<>> THEN TRUE
    ELSE clock - last[1] >= interval

\* the minute at which a sleep that starts at this minute ends
sleep_until(clock) ==
    IF clock + SleepMinutes <= MaxClock THEN clock + SleepMinutes ELSE MaxClock

\* OptimizationTrigger(solver, interval_minutes), lines 15-20, and the
\* calls of start_scheduler its owner will make
InitTrigger ==
    /\ interval_minutes \in 1..MaxInterval
    /\ is_running = FALSE
    /\ last_run = <<>>
    /\ now = 0
    /\ starts_left \in 1..MaxStarts
    /\ loop_pc = [t \in Loops |-> "unstarted"]
    /\ wake_at = [t \in Loops |-> 0]
    /\ last_trigger = [t \in Loops |-> <<>>]
    /\ triggers_while_stopped = [t \in Loops |-> 0]
    /\ last_run_writers = {}
    /\ ConflictIdle
    /\ ExactIdle
    /\ GreedyIdle
    /\ platform_records = DefaultPlatforms
    /\ ParallelIdle

\* start_scheduler, lines 22-26: the flag is set and a new thread is
\* started at the top of _run_scheduler
StartScheduler ==
    /\ starts_left > 0
    /\ \E t \in Loops :
        /\ loop_pc[t] = "unstarted"
        /\ \A u \in Loops : u < t => loop_pc[u] # "unstarted"
        /\ loop_pc' = [loop_pc EXCEPT ![t] = "while"]
    /\ is_running' = TRUE
    /\ starts_left' = starts_left - 1
    /\ triggers_while_stopped' = [t \in Loops |-> 0]
    /\ UNCHANGED <<interval_minutes, last_run, now, wake_at, last_trigger,
                   last_run_writers, conflict_vars, exact_vars, greedy_vars,
                   platform_records, parallel_vars>>

\* stop_scheduler, lines 28-31
StopScheduler ==
    /\ is_running' = FALSE
    /\ UNCHANGED <<interval_minutes, last_run, now, starts_left, loop_pc, wake_at,
                   last_trigger, triggers_while_stopped, last_run_writers,
                   conflict_vars, exact_vars, greedy_vars,
                   platform_records, parallel_vars>>

\* line 35: the thread reads the flag and goes on or leaves the loop
LoopCondition(t) ==
    /\ loop_pc[t] = "while"
    /\ loop_pc' = [loop_pc EXCEPT ![t] =
            IF loop_condition(is_running) THEN "check" ELSE "exited"]
    /\ UNCHANGED <<interval_minutes, is_running, last_run, now, starts_left,
                   wake_at, last_trigger, triggers_while_stopped,
                   last_run_writers, conflict_vars, exact_vars, greedy_vars,
                   platform_records, parallel_vars>>

\* line 37: the check; a thread that is not to trigger goes to sleep,
\* line 41
ShouldRunOptimization(t) ==
    /\ loop_pc[t] = "check"
    /\ IF should_run_optimization(last_run, now, interval_minutes)
       THEN /\ loop_pc' = [loop_pc EXCEPT ![t] = "trigger"]
            /\ UNCHANGED wake_at
       ELSE /\ loop_pc' = [loop_pc EXCEPT ![t] = "sleep"]
            /\ wake_at' = [wake_at EXCEPT ![t] = sleep_until(now)]
    /\ UNCHANGED <<interval_minutes, is_running, last_run, now, starts_left,
                   last_trigger, triggers_while_stopped,
                   last_run_writers, conflict_vars, exact_vars, greedy_vars,
                   platform_records, parallel_vars>>

\* line 38: _trigger_optimization, lines 53-56
TriggerOptimization(t) ==
    /\ loop_pc[t] = "trigger"
    /\ loop_pc' = [loop_pc EXCEPT ![t] = "triggered"]
    /\ last_trigger' = [last_trigger EXCEPT ![t] = <<now>>]
    /\ triggers_while_stopped' =
            [triggers_while_stopped EXCEPT ![t] = IF is_running THEN @ ELSE @ + 1]
    /\ UNCHANGED <<interval_minutes, is_running, last_run, now, starts_left,
                   wake_at, last_run_writers, conflict_vars, exact_vars,
                   greedy_vars, platform_records, parallel_vars>>

\* line 39: self.last_run = datetime.now(), and the thread goes to sleep,
\* line 41
SetLastRun(t) ==
    /\ loop_pc[t] = "triggered"
    /\ last_run' = <<now>>
    /\ last_run_writers' = last_run_writers \cup {t}
    /\ loop_pc' = [loop_pc EXCEPT ![t] = "sleep"]
    /\ wake_at' = [wake_at EXCEPT ![t] = sleep_until(now)]
    /\ UNCHANGED <<interval_minutes, is_running, now, starts_left,
                   last_trigger, triggers_while_stopped, conflict_vars,
                   exact_vars, greedy_vars, platform_records, parallel_vars>>

\* line 41: the sleep ends and the thread is back at the top of the loop
WakeUp(t) ==
    /\ loop_pc[t] = "sleep"
    /\ now >= wake_at[t]
    /\ loop_pc' = [loop_pc EXCEPT ![t] = "while"]
    /\ wake_at' = [wake_at EXCEPT ![t] = 0]
    /\ UNCHANGED <<interval_minutes, is_running, last_run, now, starts_left,
                   last_trigger, triggers_while_stopped,
                   last_run_writers, conflict_vars, exact_vars, greedy_vars,
                   platform_records, parallel_vars>>

\* a minute passes
Tick ==
    /\ now < MaxClock
    /\ now' = now + 1
    /\ UNCHANGED <<interval_minutes, is_running, last_run, starts_left, loop_pc,
                   wake_at, last_trigger, triggers_while_stopped,
                   last_run_writers, conflict_vars, exact_vars, greedy_vars,
                   platform_records, parallel_vars>>

\* a step of the scheduler thread t
RunScheduler(t) ==
    \/ LoopCondition(t)
    \/ ShouldRunOptimization(t)
    \/ TriggerOptimization(t)
    \/ SetLastRun(t)
    \/ WakeUp(t)

NextTrigger ==
    \/ StartScheduler
    \/ StopScheduler
    \/ \E t \in Loops : RunScheduler(t)
    \/ Tick

SpecTrigger == InitTrigger /\ [][NextTrigger]_vars

\* a started thread is scheduled again and again and time goes on
SpecTriggerFair ==
    /\ InitTrigger
    /\ [][NextTrigger]_vars
    /\ \A t \in Loops : WF_vars(RunScheduler(t))
    /\ WF_vars(Tick)

\* ------------------------------------------------- properties, SpecExact

\* the conflict relation of the specification: two windows conflict unless
\* one ends at least the buffer before the other starts
BufferedConflict(r1, r2) ==
    /\ r1.departure_time + BufferMinutes > r2.arrival_time
    /\ r2.departure_time + BufferMinutes > r1.arrival_time

Solved == pc = "done" /\ result.status \in {"OPTIMAL", "FEASIBLE"}

Assigned(k) == trains_df[k].train_id \in DOMAIN result.platform_assignments

PlatformOf(k) == result.platform_assignments[trains_df[k].train_id]

\* C1: in every OPTIMAL or FEASIBLE result, two distinct rows of the train
\* table that are mapped to the same platform do not conflict under the
\* 5-minute-buffered predicate; when all rows conflict pairwise, the
\* assigned platforms are all distinct.
C1_ExactSoundness ==
    Solved =>
        /\ \A i, j \in DOMAIN trains_df :
            (i # j /\ Assigned(i) /\ Assigned(j) /\ PlatformOf(i) = PlatformOf(j))
                => ~BufferedConflict(trains_df[i], trains_df[j])
        /\ (\A i, j \in DOMAIN trains_df :
                i # j => BufferedConflict(trains_df[i], trains_df[j]))
            => Cardinality(Range(result.platform_assignments))
                = Cardinality(DOMAIN result.platform_assignments)

\* C1 witness: a solved table of three trains where two conflicting trains
\* got different platforms and two other trains share one
C1_Witness ==
    /\ Solved
    /\ Len(trains_df) = 3
    /\ Cardinality(train_ids(trains_df)) = 3
    /\ \E i, j \in DOMAIN trains_df :
        /\ BufferedConflict(trains_df[i], trains_df[j])
        /\ i # j /\ PlatformOf(i) # PlatformOf(j)
    /\ \E i, j \in DOMAIN trains_df : i # j /\ PlatformOf(i) = PlatformOf(j)

\* C2: in every OPTIMAL or FEASIBLE result, platform_assignments has one
\* entry per row of the train table, every train id is a key, and every
\* value is a platform of the list passed in.
C2_ExactTotality ==
    Solved =>
        /\ Cardinality(DOMAIN result.platform_assignments) = Len(trains_df)
        /\ \A k \in DOMAIN trains_df :
            Assigned(k) /\ PlatformOf(k) \in Range(platforms)

\* a set of rows, larger than the platform list, that conflict pairwise
OversizedClique ==
    \E S \in SUBSET (DOMAIN trains_df) :
        /\ Cardinality(S) > Len(platforms)
        /\ \A i, j \in S : i # j => BufferedConflict(trains_df[i], trains_df[j])

\* C3 as stated: with more pairwise-conflicting trains than platforms the
\* status is INFEASIBLE.
C3_AlwaysInfeasible ==
    (pc = "done" /\ OversizedClique) => result.status = "INFEASIBLE"

\* C3, amended: with more pairwise-conflicting trains than platforms the
\* status is INFEASIBLE when the search finishes within the time limit and
\* UNKNOWN when the time limit cuts it off; no assignment is reported.
C3_InfeasibleOrCutOff ==
    (pc = "done" /\ OversizedClique) =>
        /\ result.status = (IF solver.cut_off THEN "UNKNOWN" ELSE "INFEASIBLE")
        /\ DOMAIN result.platform_assignments = {}

\* C3 witness: three trains with the same window on two platforms, and the
\* search finished
C3_Witness ==
    /\ pc = "done"
    /\ ~solver.cut_off
    /\ Len(trains_df) = 3 /\ Len(platforms) = 2
    /\ Cardinality(train_ids(trains_df)) = 3
    /\ \A i, j \in DOMAIN trains_df :
        /\ trains_df[i].arrival_time = trains_df[j].arrival_time
        /\ trains_df[i].departure_time = trains_df[j].departure_time
    /\ result.status = "INFEASIBLE"

\* a mapping of every train id to one platform of the list in which no two
\* conflicting rows share a platform
ValidMapping(f) ==
    \A i, j \in DOMAIN trains_df :
        (i # j /\ BufferedConflict(trains_df[i], trains_df[j]))
            => f[trains_df[i].train_id] # f[trains_df[j].train_id]

ValidMappingExists ==
    \E f \in [train_ids(trains_df) -> Range(platforms)] : ValidMapping(f)

\* C4: INFEASIBLE is returned only when no valid mapping exists; when one
\* exists and the time limit does not cut the search off, the status is
\* OPTIMAL and platform_assignments is a valid mapping of every train id.
C4_ExactCompleteness ==
    pc = "done" =>
        /\ result.status = "INFEASIBLE" => ~ValidMappingExists
        /\ (ValidMappingExists /\ ~solver.cut_off) =>
            /\ result.status = "OPTIMAL"
            /\ DOMAIN result.platform_assignments = train_ids(trains_df)
            /\ \A t \in train_ids(trains_df) :
                result.platform_assignments[t] \in Range(platforms)
            /\ ValidMapping(result.platform_assignments)

\* C4 witness: trains 1 and 3 conflict, train 2 conflicts with neither, two
\* platforms: OPTIMAL with trains 1 and 3 on different platforms
C4_Witness ==
    /\ pc = "done"
    /\ Len(trains_df) = 3 /\ Len(platforms) = 2
    /\ \A k \in 1..3 : trains_df[k].train_id = k
    /\ BufferedConflict(trains_df[1], trains_df[3])
    /\ ~BufferedConflict(trains_df[1], trains_df[2])
    /\ ~BufferedConflict(trains_df[3], trains_df[2])
    /\ result.status = "OPTIMAL"
    /\ DOMAIN result.platform_assignments = {1, 2, 3}
    /\ result.platform_assignments[1] # result.platform_assignments[3]

\* ------------------------------------------------- properties, SpecGreedy

GreedyIds == train_ids(current_trains_df)

\* no two trains that were given the same platform conflict
NoSharedConflict ==
    \A i, j \in DOMAIN current_trains_df :
        (i # j /\ assignments[current_trains_df[i].train_id]
                    = assignments[current_trains_df[j].train_id])
            => ~BufferedConflict(current_trains_df[i], current_trains_df[j])

\* C5 as stated: after the greedy pass no two trains assigned to the same
\* platform conflict under the 5-minute-buffered predicate.
C5_GreedyConflictFree == gpc = "finished" => NoSharedConflict

\* C5, amended: after the greedy pass no two trains on one platform
\* conflict exactly when conflicts_resolved is 0, and that is the case
\* whenever there are no more trains than platforms.
C5_ConflictFreeIffNoneCounted ==
    gpc = "finished" =>
        /\ NoSharedConflict <=> conflicts_resolved = 0
        /\ Len(current_trains_df) <= Len(greedy_platforms) => NoSharedConflict

\* C5 witness: three trains on two platforms, two of them conflicting and
\* put on different platforms, nothing counted
C5_Witness ==
    /\ gpc = "finished"
    /\ Len(current_trains_df) = 3 /\ Len(greedy_platforms) = 2
    /\ conflicts_resolved = 0
    /\ \E i, j \in DOMAIN current_trains_df :
        /\ i # j
        /\ BufferedConflict(current_trains_df[i], current_trains_df[j])
        /\ assignments[i] # assignments[j]

\* C6: with a platform list that is not empty (train ids are unique) the
\* run never ends in the failure outcome, and when the pass has finished
\* assignments and reasons hold every train id and every assigned value is
\* a platform of the list.
C6_GreedyTotality ==
    Len(greedy_platforms) > 0 =>
        /\ gpc # "error" /\ status_label # "Error"
        /\ gpc = "finished" =>
            /\ DOMAIN assignments = GreedyIds
            /\ DOMAIN assignment_reasons = GreedyIds
            /\ \A t \in GreedyIds : assignments[t] \in Range(greedy_platforms)

\* C6 witness: a finished pass over three trains, one of them with an
\* original platform that is not in the list
C6_Witness ==
    /\ gpc = "finished"
    /\ Len(current_trains_df) = 3
    /\ Len(greedy_platforms) = 1
    /\ \E k \in DOMAIN current_trains_df :
        /\ current_trains_df[k].original_platform = 2
        /\ assignments[k] = 1

C8_GreedyDeterminism ==
    \A h, k \in DOMAIN optimization_history :
        /\ optimization_history[h].assignments = optimization_history[k].assignments
        /\ optimization_history[h].assignment_reasons
            = optimization_history[k].assignment_reasons
        /\ optimization_history[h].conflicts_resolved
            = optimization_history[k].conflicts_resolved
        /\ optimization_history[h].priority_changes
            = optimization_history[k].priority_changes

\* C8 witness: two finished runs that both had to double-book a platform
C8_Witness ==
    /\ Len(optimization_history) = 2
    /\ optimization_history[2].conflicts_resolved > 0
    /\ optimization_history[2].priority_changes > 0

\* priority class a is strictly higher than class b
HigherClass(a, b) ==
    <<a, b>> \in {<<"URGENT", "HIGH">>, <<"URGENT", "MEDIUM">>, <<"URGENT", "LOW">>,
                  <<"HIGH", "MEDIUM">>, <<"HIGH", "LOW">>, <<"MEDIUM", "LOW">>}

\* row i is to be decided before row j
DecidedFirst(i, j) ==
    LET a == current_trains_df[i]
        b == current_trains_df[j]
    IN  \/ HigherClass(a.priority, b.priority)
        \/ a.priority = b.priority /\ a.arrival_time < b.arrival_time
        \/ a.priority = b.priority /\ a.arrival_time = b.arrival_time /\ i < j

\* the row's interval is in the occupancy log of the platform it was given
Committed(i) ==
    LET t == current_trains_df[i]
    IN  /\ t.train_id \in DOMAIN assignments
        /\ \E k \in DOMAIN platform_schedule[assignments[t.train_id]] :
                platform_schedule[assignments[t.train_id]][k].train_id = t.train_id

\* C9: at every point of a run, a train that is decided has every train
\* of a higher priority class, of the same class and an earlier arrival,
\* or of the same class and arrival and an earlier row, decided and
\* committed already.
C9_ProcessingOrder ==
    gpc \in {"loop", "finished"} =>
        \A i, j \in DOMAIN current_trains_df :
            (DecidedFirst(i, j) /\ current_trains_df[j].train_id \in DOMAIN assignments)
                => Committed(i)

\* C9 witness: an URGENT train that comes later in the table and arrives
\* later is decided while the LOW train it overlaps is not
C9_Witness ==
    /\ gpc = "loop"
    /\ \E i, j \in DOMAIN current_trains_df :
        /\ i < j
        /\ current_trains_df[i].priority = "LOW"
        /\ current_trains_df[j].priority = "URGENT"
        /\ current_trains_df[i].arrival_time < current_trains_df[j].arrival_time
        /\ BufferedConflict(current_trains_df[i], current_trains_df[j])
        /\ Committed(j)
        /\ current_trains_df[i].train_id \notin DOMAIN assignments

\* C17: no step of a greedy run or of an exact call changes a field of the
\* train data it was given (the rows, the stored optimized platform and
\* reason of each row) or the platform list.
C17_InputNeverMutated ==
    [][/\ current_trains_df' = current_trains_df
       /\ optimized_columns' = optimized_columns
       /\ greedy_platforms' = greedy_platforms
       /\ trains_df' = trains_df
       /\ platforms' = platforms]_vars

\* ------------------------------------------------- properties, SpecConflict

\* C10: for two intervals with arrival before departure, _times_overlap
\* answers the same for (A, B) and (B, A), and so does the test of
\* count_conflicts.
C10_ConflictSymmetry ==
    cpc = "done" => overlap_ab = overlap_ba /\ count_ab = count_ba

\* C10 witness: B arrives one minute short of the buffer after A leaves,
\* and both tests report the conflict
C10_Witness ==
    /\ cpc = "done"
    /\ iv_a.departure + BufferMinutes - 1 = iv_b.arrival
    /\ overlap_ab /\ count_ab = 1

\* the minutes between the end of the earlier interval and the start of
\* the later one; -1 when neither ends before the other starts
Gap(a, b) ==
    IF a.departure <= b.arrival THEN b.arrival - a.departure
    ELSE IF b.departure <= a.arrival THEN a.arrival - b.departure
    ELSE -1

\* C11: two intervals conflict exactly when the gap between them is
\* shorter than the 5-minute buffer, in _times_overlap and in
\* count_conflicts alike: an arrival exactly 5 minutes after the other
\* departure is no conflict, an arrival 4 minutes after it is one.
C11_BufferBoundary ==
    cpc = "done" =>
        /\ overlap_ab = (Gap(iv_a, iv_b) < BufferMinutes)
        /\ count_ab = (IF Gap(iv_a, iv_b) < BufferMinutes THEN 1 ELSE 0)
        /\ iv_b.arrival = iv_a.departure + BufferMinutes
            => ~overlap_ab /\ ~overlap_ba /\ count_ab = 0 /\ count_ba = 0
        /\ iv_b.arrival = iv_a.departure + BufferMinutes - 1
            => overlap_ab /\ overlap_ba /\ count_ab = 1 /\ count_ba = 1

\* C11 witness: B arrives exactly the buffer after A leaves, and neither
\* test reports a conflict
C11_Witness ==
    /\ cpc = "done"
    /\ iv_b.arrival = iv_a.departure + BufferMinutes
    /\ ~overlap_ab /\ count_ab = 0

\* ------------------------------------------ properties, SpecExactAnyInput

HasColumn(c) == \A k \in DOMAIN trains_df : c \in DOMAIN trains_df[k]

\* the input breaks an invariant of the data model: no platform, a train
\* whose arrival is not before its departure, or two trains with one id
InvalidInput ==
    \/ Len(platforms) = 0
    \/ /\ HasColumn("arrival_time") /\ HasColumn("departure_time")
       /\ \E k \in DOMAIN trains_df :
            trains_df[k].arrival_time >= trains_df[k].departure_time
    \/ /\ HasColumn("train_id")
       /\ \E h, k \in DOMAIN trains_df :
            h # k /\ trains_df[h].train_id = trains_df[k].train_id

\* C12: on an input with no platform, with a train whose arrival is not
\* strictly before its departure, or with two trains of one id, the call
\* builds no constraint, never invokes the search and returns MODEL_INVALID.
C12_InvalidRejected ==
    (InvalidInput /\ HasColumn("train_id")) =>
        /\ model.exactly_one = {} /\ model.at_most_one = {}
        /\ solver.status = "none"
        /\ pc = "done" => result.status = "MODEL_INVALID"

\* a step of the call raises: the table has no train_id column
StepRaises == Len(trains_df) > 0 /\ ~HasColumn("train_id")

\* C13: a call in which a step raises ends with a result of status ERROR
\* and no assignment, and never with the exception at the caller.
C13_FailureReported ==
    /\ pc # "raised"
    /\ (StepRaises /\ pc # "start") =>
        /\ pc = "done"
        /\ result.status = "ERROR"
        /\ DOMAIN result.platform_assignments = {}

\* C14: a result with status OPTIMAL or FEASIBLE maps the id of every row
\* to a platform of the list and carries an objective value; a result
\* with any other status has no assignment and no objective value.
C14_ReportShape ==
    pc = "done" =>
        /\ result.status \in {"OPTIMAL", "FEASIBLE", "INFEASIBLE", "UNKNOWN",
                              "MODEL_INVALID"}
        /\ IF result.status \in {"OPTIMAL", "FEASIBLE"}
           THEN /\ \A k \in DOMAIN trains_df :
                    /\ trains_df[k].train_id \in DOMAIN result.platform_assignments
                    /\ result.platform_assignments[trains_df[k].train_id]
                            \in Range(platforms)
                /\ DOMAIN result.platform_assignments = train_ids(trains_df)
                /\ Len(result.objective_value) = 1
           ELSE /\ DOMAIN result.platform_assignments = {}
                /\ result.objective_value = <<>>

\* C14 witness: the search was cut off with nothing decided on a table of
\* two trains that a platform could have taken
C14_Witness ==
    /\ pc = "done"
    /\ Len(trains_df) = 2 /\ Len(platforms) = 2
    /\ result.status = "UNKNOWN"
    /\ Solutions(model, platform_vars) # {}
    /\ result.objective_value = <<>>

\* the delays of the rows k..Len(df), added up
RECURSIVE TotalDelay(_, _)
TotalDelay(df, k) ==
    IF k > Len(df) THEN 0
    ELSE (IF "delay_minutes" \in DOMAIN df[k] THEN df[k].delay_minutes ELSE 0)
            + TotalDelay(df, k + 1)

\* C20: in every OPTIMAL or FEASIBLE result the objective value is the sum
\* of delay_minutes over all rows of the table, whatever the assignment.
C20_ObjectiveIsTotalDelay ==
    (pc = "done" /\ result.status \in {"OPTIMAL", "FEASIBLE"}) =>
        result.objective_value = <<TotalDelay(trains_df, 1)>>

\* C20 witness: two delayed trains that can be assigned in more than one
\* way, and the objective value is the sum of their delays
C20_Witness ==
    /\ pc = "done"
    /\ result.status \in {"OPTIMAL", "FEASIBLE"}
    /\ Len(trains_df) = 2
    /\ HasColumn("delay_minutes")
    /\ trains_df[1].delay_minutes = MaxDelay /\ trains_df[2].delay_minutes = MaxDelay
    /\ Cardinality(Solutions(model, platform_vars)) > 1
    /\ result.objective_value = <<2 * MaxDelay>>

\* ------------------------------------------------- properties, SpecReuse

\* every constraint of self.model comes from the arguments of the call
\* that is running
ModelOfThisCall ==
    /\ \A c \in model.exactly_one :
        c.train \in train_ids(trains_df) /\ c.terms = platforms
    /\ \A c \in model.at_most_one :
        /\ c.p \in Range(platforms)
        /\ \E i, j \in DOMAIN trains_df :
            /\ i # j
            /\ trains_df[i].train_id = c.a /\ trains_df[j].train_id = c.b
            /\ BufferedConflict(trains_df[i], trains_df[j])

\* every entry of the occupancy log was committed by the run in progress
LogOfThisRun ==
    \A p \in DOMAIN platform_schedule :
        /\ \A k \in DOMAIN platform_schedule[p] :
            /\ platform_schedule[p][k].train_id \in DOMAIN assignments
            /\ assignments[platform_schedule[p][k].train_id] = p
        /\ Len(platform_schedule[p])
            = Cardinality({t \in DOMAIN assignments : assignments[t] = p})

\* C15: whatever calls came before on the same RailwaySolver, the model a
\* call solves holds only constraints of its own arguments and its result
\* is the one its arguments alone determine (INFEASIBLE only without a
\* valid mapping, OPTIMAL with a valid mapping when one exists and the
\* search is not cut off); whatever runs came before on the same
\* dashboard, the occupancy log of a run holds only its own commitments.
C15_Stateless ==
    /\ pc \in {"built", "solved", "done"} => ModelOfThisCall
    /\ pc \in {"solved", "done"} =>
        /\ solver.status = "cp_model.INFEASIBLE" => ~ValidMappingExists
        /\ (ValidMappingExists /\ ~solver.cut_off) => solver.status = "cp_model.OPTIMAL"
        /\ solver.status \in {"cp_model.OPTIMAL", "cp_model.FEASIBLE"} =>
            \A i, j \in DOMAIN trains_df :
                (i # j /\ BufferedConflict(trains_df[i], trains_df[j]))
                    => \A p \in Range(platforms) :
                        ~(solver.values[<<trains_df[i].train_id, p>>]
                            /\ solver.values[<<trains_df[j].train_id, p>>])
    /\ gpc \in {"loop", "finished"} => LogOfThisRun

\* C15 witness: a solver whose previous call found two trains in conflict
\* on the one platform (its response is still held) has built the model of
\* a call with two trains that do not conflict, and no constraint between
\* the two is in it
C15_Witness ==
    /\ pc = "built"
    /\ solver.status = "cp_model.INFEASIBLE"
    /\ Len(trains_df) = 2 /\ Len(platforms) = 1
    /\ ~BufferedConflict(trains_df[1], trains_df[2])
    /\ model.at_most_one = {}
    /\ model.exactly_one # {}

\* ------------------------------------------------ properties, SpecParallel

\* the model a thread handed to Solve holds only variables and constraints
\* that the thread created
SolvedOwnModel(t) ==
    /\ \A k \in DOMAIN th_solved[t].var_owner : th_solved[t].var_owner[k] = t
    /\ \A c \in th_solved[t].exactly_one \cup th_solved[t].at_most_one : c.by = t

\* a mapping of the thread's trains to its platforms that puts no two
\* conflicting trains on one platform
ValidFor(t, f) ==
    /\ DOMAIN f = train_ids(th_trains[t])
    /\ \A id \in DOMAIN f : f[id] \in Range(th_platforms[t])
    /\ \A i, j \in DOMAIN th_trains[t] :
        (i # j /\ BufferedConflict(th_trains[t][i], th_trains[t][j]))
            => f[th_trains[t][i].train_id] # f[th_trains[t][j].train_id]

\* the result is one the call could have returned had it run alone
AsIfAlone(t) ==
    LET r == th_result[t]
        possible == \E f \in [train_ids(th_trains[t]) -> Range(th_platforms[t])] :
                        ValidFor(t, f)
    IN  \/ r.status \in {"OPTIMAL", "FEASIBLE"} /\ ValidFor(t, r.platform_assignments)
        \/ r.status = "INFEASIBLE" /\ ~possible /\ r.platform_assignments = <<>>
        \/ r.status = "UNKNOWN" /\ r.platform_assignments = <<>>

\* C16: of two calls of solve_scheduling that run at the same time on
\* different arguments, under any interleaving of their steps, each ends
\* with a result (no exception) that is sound and total for its own
\* arguments, as if it had run alone, and the model each hands to Solve
\* holds no variable or constraint of the other.
C16_ParallelSafe ==
    \A t \in Threads :
        /\ th_pc[t] # "raised"
        /\ th_pc[t] \in {"solved", "done"} => SolvedOwnModel(t)
        /\ th_pc[t] = "done" => AsIfAlone(t)

\* ----------------------------------------------- properties, SpecPlatforms

\* a maintenance window as the row of a train that occupies the platform
WindowRow(w) == [arrival_time |-> w.arrival, departure_time |-> w.departure]

\* C18: no result of either scheduler maps a train to a platform whose
\* is_available flag is false, the exact model has no such platform among
\* the terms of a train, and the greedy scheduler keeps no train on a
\* current platform that is unavailable.
C18_UnavailableNeverAssigned ==
    /\ \A c \in model.exactly_one :
        \A k \in DOMAIN c.terms : platform_records[c.terms[k]].is_available
    /\ Solved =>
        \A t \in DOMAIN result.platform_assignments :
            platform_records[result.platform_assignments[t]].is_available
    /\ gpc \in {"loop", "finished"} =>
        \A t \in DOMAIN assignments :
            /\ platform_records[assignments[t]].is_available
            /\ assignment_reasons[t].kind = "kept"
                => platform_records[assignment_reasons[t].platform].is_available

\* C19: in every OPTIMAL or FEASIBLE result no train is on a platform
\* whose maintenance window conflicts with the train's window under the
\* buffered predicate.
C19_MaintenanceBlocks ==
    Solved =>
        \A k \in DOMAIN trains_df :
            Assigned(k) =>
                LET mw == platform_records[PlatformOf(k)].maintenance_window
                IN  mw # <<>> => ~BufferedConflict(trains_df[k], WindowRow(mw[1]))

\* ---------------------------------- properties of one greedy decision

\* the step in which the train at position idx of the sorted table is
\* decided and committed
Turn == gpc = "loop" /\ idx <= Len(sorted_trains) /\ idx' = idx + 1

TrainAtTurn == sorted_trains[idx]

\* a log entry and a train conflict under the buffered predicate
EntryConflict(train, entry) ==
    /\ train.departure_time + BufferMinutes > entry.arrival
    /\ entry.departure + BufferMinutes > train.arrival_time

\* the number of intervals committed to platform p, when the train's turn
\* comes, that conflict with the train
ConflictsAtTurn(p) ==
    Cardinality({k \in DOMAIN platform_schedule[p] :
        EntryConflict(TrainAtTurn, platform_schedule[p][k])})

\* the original platform of the train is set, is a candidate and has no
\* committed interval in conflict with the train
Keepable ==
    /\ TrainAtTurn.original_platform # 0
    /\ TrainAtTurn.original_platform \in Range(greedy_platforms)
    /\ ConflictsAtTurn(TrainAtTurn.original_platform) = 0

\* C21: a train whose original platform is set, is a candidate and has no
\* conflict with the committed intervals is assigned to it with the
\* "kept, no conflicts" reason and no scan takes place (neither counter
\* moves); a train for which one of the three fails is assigned by the
\* minimum-conflict scan.
C21_KeepCurrent ==
    [][Turn =>
        LET id == TrainAtTurn.train_id
        IN  IF Keepable
            THEN /\ assignments'[id] = TrainAtTurn.original_platform
                 /\ assignment_reasons'[id].kind = "kept"
                 /\ assignment_reasons'[id].platform = TrainAtTurn.original_platform
                 /\ conflicts_resolved' = conflicts_resolved
                 /\ priority_changes' = priority_changes
            ELSE assignment_reasons'[id].kind \in {"conflict-free", "minimized"}]_vars

\* a run that kept one train on its original platform and moved another
\* one whose original platform was a candidate with a conflict
C21_Witness ==
    /\ gpc = "finished"
    /\ \E t, u \in DOMAIN assignment_reasons :
        /\ assignment_reasons[t].kind = "kept"
        /\ assignment_reasons[u].kind # "kept"
        /\ assignment_reasons[u].original_conflicts > 0
        /\ assignment_reasons[u].original_platform \in Range(greedy_platforms)

\* C22: the platform the scan chooses has a conflict count no larger than
\* that of any candidate and is the first platform, in platform-id order,
\* with that count; the reason is "conflict-free" exactly when the count
\* is 0 and "minimized conflicts: N" with N the count otherwise.
C22_MinimumConflict ==
    [][(Turn /\ ~Keepable) =>
        LET id == TrainAtTurn.train_id
            p == assignments'[id]
            r == assignment_reasons'[id]
        IN  /\ p \in Range(greedy_platforms)
            /\ \A q \in Range(greedy_platforms) :
                /\ ConflictsAtTurn(p) <= ConflictsAtTurn(q)
                /\ ConflictsAtTurn(p) = ConflictsAtTurn(q) => p <= q
            /\ r.platform = p
            /\ r.kind = "conflict-free" <=> ConflictsAtTurn(p) = 0
            /\ r.kind = "minimized" <=> ConflictsAtTurn(p) > 0
            /\ r.min_conflicts = ConflictsAtTurn(p)]_vars

\* a run in which the scan met a tie between two platforms that both held
\* a conflicting interval, and chose the first
C22_Witness ==
    /\ gpc = "finished"
    /\ Len(greedy_platforms) = 2
    /\ \E t \in DOMAIN assignment_reasons :
        /\ assignment_reasons[t].kind = "minimized"
        /\ assignment_reasons[t].min_conflicts = 1
        /\ assignments[t] = 1
        /\ Len(platform_schedule[1]) = 2
        /\ Len(platform_schedule[2]) = 1
        /\ platform_schedule[1][2].train_id = t

\* every entry of every occupancy log, as a platform and a position
LogEntries ==
    {e \in (DOMAIN platform_schedule) \X (1..Len(sorted_trains)) :
        e[2] <= Len(platform_schedule[e[1]])}

\* C23: at every point of a run, the trains decided so far are the keys
\* of assignments, the interval of each of them is in the log of the
\* platform it was given and in no other log, and the logs hold as many
\* entries as assignments has trains.
C23_CommitInvariant ==
    gpc \in {"loop", "finished"} =>
        /\ DOMAIN assignments = {sorted_trains[k].train_id : k \in 1..(idx - 1)}
        /\ \A k \in 1..(idx - 1) :
            LET train == sorted_trains[k] IN
            \A e \in LogEntries :
                platform_schedule[e[1]][e[2]].train_id = train.train_id =>
                    /\ e[1] = assignments[train.train_id]
                    /\ platform_schedule[e[1]][e[2]].arrival = train.arrival_time
                    /\ platform_schedule[e[1]][e[2]].departure = train.departure_time
        /\ \A e \in LogEntries :
            platform_schedule[e[1]][e[2]].train_id \in DOMAIN assignments
        /\ Cardinality(LogEntries) = Cardinality(DOMAIN assignments)

\* a run in progress with two trains committed to the second platform and
\* a third one yet to decide
C23_Witness ==
    /\ gpc = "loop"
    /\ idx = 3
    /\ Len(sorted_trains) = 3
    /\ Len(greedy_platforms) = 2
    /\ Len(platform_schedule[2]) = 2

\* C24: conflicts_resolved is 0 when the loop starts, a train that is
\* scanned adds the conflict count its chosen platform has at that
\* moment, a train that is kept adds nothing, and the value the run
\* records is the one the loop ended with.
C24_ConflictsResolved ==
    [][/\ (gpc # "loop" /\ gpc' = "loop") => conflicts_resolved' = 0
       /\ Turn =>
            conflicts_resolved' = conflicts_resolved +
                (IF Keepable THEN 0
                 ELSE ConflictsAtTurn(assignments'[TrainAtTurn.train_id]))
       /\ (gpc = "loop" /\ gpc' = "finished") =>
            /\ conflicts_resolved' = conflicts_resolved
            /\ optimization_history'[Len(optimization_history')].conflicts_resolved
                = conflicts_resolved]_vars

\* a run on one platform in which the second train added one conflict and
\* the third train two
C24_Witness ==
    /\ gpc = "finished"
    /\ Len(greedy_platforms) = 1
    /\ Cardinality(DOMAIN assignments) = 3
    /\ \E t \in DOMAIN assignment_reasons : assignment_reasons[t].min_conflicts = 2
    /\ conflicts_resolved = 3

\* the unordered pairs of distinct trains that were given the same
\* platform and conflict under the buffered predicate
ConflictingPairs ==
    {pair \in (DOMAIN current_trains_df) \X (DOMAIN current_trains_df) :
        /\ pair[1] < pair[2]
        /\ assignments[current_trains_df[pair[1]].train_id]
            = assignments[current_trains_df[pair[2]].train_id]
        /\ BufferedConflict(current_trains_df[pair[1]], current_trains_df[pair[2]])}

\* C25: for a non-empty platform list, the conflicts_resolved of a
\* finished run is the number of unordered pairs of distinct trains on
\* the same platform that conflict under the buffered predicate.
C25_AccountingMatchesSchedule ==
    (gpc = "finished" /\ Len(greedy_platforms) > 0) =>
        conflicts_resolved = Cardinality(ConflictingPairs)

\* a finished run on two platforms that left exactly one conflicting pair
C25_Witness ==
    /\ gpc = "finished"
    /\ Len(greedy_platforms) = 2
    /\ Cardinality(ConflictingPairs) = 1
    /\ conflicts_resolved = 1

\* the trains of priority HIGH or URGENT that were not kept
ScannedPriorityTrains ==
    {k \in DOMAIN current_trains_df :
        /\ current_trains_df[k].priority \in {"HIGH", "URGENT"}
        /\ assignment_reasons[current_trains_df[k].train_id].kind # "kept"}

\* C26: the priority_changes of a finished run is the number of trains of
\* priority HIGH or URGENT that went through the scan, and the reason of
\* a train carries the priority note exactly when the train was counted.
C26_PriorityChanges ==
    (gpc = "finished" /\ Len(greedy_platforms) > 0) =>
        /\ priority_changes = Cardinality(ScannedPriorityTrains)
        /\ \A k \in DOMAIN current_trains_df :
            LET r == assignment_reasons[current_trains_df[k].train_id]
            IN  /\ r.priority_note # "" <=> k \in ScannedPriorityTrains
                /\ r.priority_note # "" =>
                    r.priority_note = current_trains_df[k].priority

\* a finished run with a HIGH train that was scanned and counted, an
\* URGENT train that was kept and not counted, and a scanned LOW train
C26_Witness ==
    /\ gpc = "finished"
    /\ priority_changes = 1
    /\ \E i, j, k \in DOMAIN current_trains_df :
        /\ current_trains_df[i].priority = "HIGH"
        /\ i \in ScannedPriorityTrains
        /\ current_trains_df[j].priority = "URGENT"
        /\ assignment_reasons[current_trains_df[j].train_id].kind = "kept"
        /\ current_trains_df[k].priority = "LOW"
        /\ assignment_reasons[current_trains_df[k].train_id].kind # "kept"

\* C27: with a non-empty platform list no train is given its platform by
\* the emergency round-robin branch.
C27_EmergencyUnreachable ==
    (gpc \in {"loop", "finished"} /\ Len(greedy_platforms) > 0) =>
        /\ idx <= Len(sorted_trains) => Decision.reason.kind # "emergency"
        /\ \A t \in DOMAIN assignment_reasons :
            assignment_reasons[t].kind # "emergency"

\* a train that the scan placed on a platform where every candidate held
\* a conflicting interval
C27_Witness ==
    /\ gpc = "finished"
    /\ Len(greedy_platforms) = 2
    /\ \E t \in DOMAIN assignment_reasons :
        /\ assignment_reasons[t].kind = "minimized"
        /\ assignment_reasons[t].original_platform = 0
    /\ \A p \in DOMAIN platform_schedule : Len(platform_schedule[p]) >= 1

\* ---------------------------------- properties, OptimizationTrigger

\* the scheduler threads that are inside the loop of _run_scheduler
RunningLoops == {t \in Loops : loop_pc[t] \notin {"unstarted", "exited"}}

\* a run is due: last_run is None or interval_minutes have passed since
Due == last_run = <<>> \/ now - last_run[1] >= interval_minutes

\* C28: a check of a scheduler thread leads to _trigger_optimization
\* exactly when last_run is None or at least interval_minutes have passed
\* since last_run, the thread writes the time to last_run after each
\* trigger, and two consecutive triggers of one thread are at least
\* interval_minutes apart.
C28_TriggerSpacing ==
    [][\A t \in Loops :
        /\ (loop_pc[t] = "check" /\ loop_pc'[t] # "check") =>
                (loop_pc'[t] = "trigger" <=> Due)
        /\ (loop_pc[t] = "trigger" /\ loop_pc'[t] # "trigger") =>
                /\ last_trigger'[t] = <<now>>
                /\ last_trigger[t] # <<>> =>
                        now - last_trigger[t][1] >= interval_minutes
                /\ loop_pc'[t] = "triggered"
        /\ (loop_pc[t] = "triggered" /\ loop_pc'[t] # "triggered") =>
                last_run' = <<now>>]_vars

\* the only scheduler thread has just triggered for the second time,
\* interval_minutes or more after the last_run it wrote
C28_Witness ==
    \E t \in Loops :
        /\ RunningLoops = {t}
        /\ last_run_writers = {t}
        /\ loop_pc[t] = "triggered"
        /\ last_trigger[t] = <<now>>
        /\ now - last_run[1] >= interval_minutes

\* C29: once stop_scheduler was called, and until start_scheduler is
\* called again, a scheduler thread calls _trigger_optimization at most
\* once more, and every scheduler thread leaves its loop in the end.
C29_Shutdown ==
    /\ [](~is_running => \A t \in Loops : triggers_while_stopped[t] <= 1)
    /\ (~is_running) ~>
            (is_running \/ \A t \in Loops : loop_pc[t] \in {"unstarted", "exited"})

\* a scheduler thread that triggered once after stop_scheduler and then
\* left its loop
C29_Witness ==
    /\ ~is_running
    /\ \E t \in Loops :
        /\ loop_pc[t] = "exited"
        /\ triggers_while_stopped[t] = 1

\* C30: whatever calls of start_scheduler and stop_scheduler were made,
\* at most one scheduler thread is inside its loop, and the last triggers
\* of two threads are at least interval_minutes apart.
C30_SingleLoop ==
    /\ Cardinality(RunningLoops) <= 1
    /\ \A t, u \in Loops :
        (t # u /\ last_trigger[t] # <<>> /\ last_trigger[u] # <<>>
            /\ last_trigger[t][1] <= last_trigger[u][1]) =>
            last_trigger[u][1] - last_trigger[t][1] >= interval_minutes

====
